---- MODULE Spec2Model ----
(***************************************************************************)
(* Model of pyspear/bayesian/model.py: the two model builders              *)
(* make_model_powexp and make_model_cov3par, the log-densities of the      *)
(* 'CSK' priors, and the observed likelihood nodes model_powexp and        *)
(* model_cov3par as the sampler drives them.                               *)
(*                                                                         *)
(* Floats are fixed-point integers counted in thousandths (One == 1000),   *)
(* so 1.999 is 1999 and 10000 is 10000000.                                 *)
(***************************************************************************)
EXTENDS Integers, Sequences, FiniteSets, TLC

VARIABLES args, result, model, stdout, last

vars == <<args, result, model, stdout, last>>

\* ------------------------------------------------------------------ bounds
\* the longest tuple passed as a prior argument
MaxTuple == 2

\* ------------------------------------------------------- fixed-point floats
One == 1000

FMul(a, b) == (a * b) \div One

FDiv(a, b) == (a * One) \div b

RECURSIVE SqrtSearch(_, _, _)
SqrtSearch(x, lo, hi) ==
    IF lo >= hi THEN lo
    ELSE LET mid == (lo + hi + 1) \div 2
         IN IF mid * mid <= x THEN SqrtSearch(x, mid, hi) ELSE SqrtSearch(x, lo, mid - 1)

\* integer square root, 0 <= x < 2^31
ISqrt(x) == SqrtSearch(x, 0, 46340)

\* np.sqrt(rx*cadence): the square root of a product of two fixed-point
\* floats, taken factor by factor so that the product stays inside the
\* integer range; exact on the light-curve statistics of ZyData, which are
\* perfect squares
SqrtProd(a, b) == ISqrt(a) * ISqrt(b)

\* 1./np.sqrt(x) for x > 0:  1000/sqrt(x/1000) = sqrt(10^9 / x)
InvSqrt(x) == ISqrt(1000000000 \div x)

Abs(x) == IF x < 0 THEN -x ELSE x

\* ------------------------------------------------------------ Python values
Str(s) == [t |-> "str", s |-> s, v |-> 0, n |-> 0]

PyInt(i) == [t |-> "int", s |-> "", v |-> i, n |-> 0]

PyFloat(m) == [t |-> "float", s |-> "", v |-> m, n |-> 0]

PyTuple(n) == [t |-> "tuple", s |-> "", v |-> 0, n |-> n]

\* x == "literal"
StrEq(x, lit) == x.t = "str" /\ x.s = lit

\* the strings float() parses, with the float each one denotes
NumericStrings == {"2.5"}

ParseFloat(s) == CASE s = "2.5" -> 2500

\* float(x): a float stays, an int is widened, a string is parsed or
\* rejected with ValueError, anything else is rejected with TypeError
float(x) ==
    CASE x.t = "float" -> [ok |-> TRUE, v |-> x.v, exc |-> ""]
      [] x.t = "int"   -> [ok |-> TRUE, v |-> x.v * One, exc |-> ""]
      [] x.t = "str"   -> IF x.s \in NumericStrings
                          THEN [ok |-> TRUE, v |-> ParseFloat(x.s), exc |-> ""]
                          ELSE [ok |-> FALSE, v |-> 0, exc |-> "ValueError"]
      [] OTHER         -> [ok |-> FALSE, v |-> 0, exc |-> "TypeError"]

\* "... %s" % x succeeds unless x is a tuple that does not hold exactly one
\* item, which the % operator takes as the argument list
FormatOk(x) == x.t # "tuple" \/ x.n = 1

\* ---------------------------------------------------------- log-densities
NegLog(num, den) == [k |-> "neglog", num |-> num, den |-> den]

NegInf == [k |-> "neginf", num |-> 0, den |-> 0]

PyNone == [k |-> "None", num |-> 0, den |-> 0]

\* the float 10000 of the tau prior
TauCut == 10000000

\* logp of the 'CSK' sigma prior, make_model_powexp
sigma_logp_powexp(value) ==
    IF value > 0 THEN NegLog(value, One)
    ELSE IF value < 0 THEN NegInf
    ELSE PyNone

\* logp of the 'CSK' sigma prior, make_model_cov3par
sigma_logp_cov3par(value) ==
    IF value > 0 THEN NegLog(value, One)
    ELSE IF value < 0 THEN NegInf
    ELSE PyNone

\* tau_logp_powexp with the quotient of the upper lobe turned over
tau_logp_powexp_flipped(value, cadence) ==
    IF TauCut > value /\ value > cadence THEN NegLog(cadence, value)
    ELSE IF 0 < value /\ value <= cadence THEN NegLog(cadence, value)
    ELSE NegInf

\* logp of the 'CSK' tau prior, make_model_powexp (1.0*cadence is cadence)
tau_logp_powexp(value, cadence) ==
    IF TauCut > value /\ value > cadence THEN NegLog(value, cadence)
    ELSE IF 0 < value /\ value <= cadence THEN NegLog(cadence, value)
    ELSE NegInf

\* logp of the 'CSK' tau prior, make_model_cov3par
tau_logp_cov3par(value, cadence) ==
    IF TauCut > value /\ value > cadence THEN NegLog(value, cadence)
    ELSE IF 0 < value /\ value <= cadence THEN NegLog(cadence, value)
    ELSE NegInf

\* ------------------------------------------------------------------- nodes
Node(kind, dist, p1, p2, value, parents) ==
    [kind |-> kind, dist |-> dist, p1 |-> p1, p2 |-> p2, value |-> value,
     parents |-> parents, guess |-> <<>>, covfunc |-> ""]

Stochastic(dist, p1, p2, value) == Node("Stochastic", dist, p1, p2, value, <<>>)

Deterministic(dist, parents) == Node("Deterministic", dist, 0, 0, 0, parents)

Fixed(value) == Node("float", "", 0, 0, value, <<>>)

Observed(guess, parents, covfunc) ==
    [kind |-> "Observed", dist |-> "", p1 |-> 0, p2 |-> 0, value |-> 0,
     parents |-> parents, guess |-> guess, covfunc |-> covfunc]

NoNodes == [x \in {} |-> Fixed(0)]

\* the outcome of one prior block: the names it binds, what it printed, or
\* the exception that left it
Bound(nodes, out) == [ok |-> TRUE, exc |-> "", about |-> "", nodes |-> nodes, out |-> out]

Raised(exc, about) == [ok |-> FALSE, exc |-> exc, about |-> about, nodes |-> NoNodes, out |-> {}]

\* the except: clause of a prior block: raise RuntimeError("no such prior
\* for <name> %s" % x); formatting the message may itself raise
NoSuchPrior(name, x) ==
    IF FormatOk(x) THEN Raised("RuntimeError", name) ELSE Raised("TypeError", name)

\* --------------------------------------------------------------- arguments
\* zydata: cont_cad, rj and the extremes of marr; a densely sampled light
\* curve, and one of two epochs 16000 days apart (rj equal to cont_cad), so
\* that the start value sqrt(rx*cadence) of tau has a finite 'CSK'
\* log-density in both
ZyData ==
    { [cont_cad |-> 2500, rj |-> 1000000, marr_max |-> 15000, marr_min |-> 13000],
      [cont_cad |-> 16000000, rj |-> 16000000, marr_max |-> 16000, marr_min |-> 12000] }

SigPriorArgs ==
    { Str("CSK"), Str("Vague"), Str("Gamma"), Str("None"), Str("abc"), PyFloat(1500) }
    \cup { PyTuple(n) : n \in 0..MaxTuple }

TauPriorArgs ==
    { Str("CSK"), Str("Vague"), Str("IG"), Str("None"), Str("abc"), Str("2.5") }

NuPriorArgs == { Str("Uniform"), Str("abc"), PyInt(1) }

\* a covfunc argument: its characters, and whether it is the very object of
\* the equal string literal of model.py (an interned literal is, a string
\* built at run time is not)
Cov(s, same) == [s |-> s, same |-> same]

CovNames == {"pow_exp", "matern", "pareto_exp", "kepler_exp"}

CovArgs == { Cov(s, b) : s \in CovNames, b \in BOOLEAN } \cup { Cov("foo", FALSE) }

\* covfunc is "literal"
Is(covfunc, lit) == covfunc.s = lit /\ covfunc.same

NoParInit == [none |-> TRUE, list |-> <<>>]

ParInit(l) == [none |-> FALSE, list |-> l]

ParInitArgs == { NoParInit, ParInit(<<700, 30000, 1200>>) }

\* a local variable: assigned or not yet
Unbound == [bound |-> FALSE, v |-> 0]

Local(v) == [bound |-> TRUE, v |-> v]

\* --------------------------------------------------- make_model_powexp
\* the message "<name> is fixed to be %.3f" when set_verbose
Verbose(set_verbose, name, v) == IF set_verbose THEN {<<name, v>>} ELSE {}

\* sigma_powexp with the 'None' recipe placed on sigma itself
sigma_powexp_direct(use_sigprior, ry, set_verbose) ==
    LET q == FDiv(ry, 4 * One)
        isq == FDiv(One, FMul(q, q))
    IN IF StrEq(use_sigprior, "CSK")
       THEN Bound("sigma" :> Stochastic("CSK", 0, 0, q), {})
       ELSE IF StrEq(use_sigprior, "Vague")
       THEN Bound(("invsigsq" :> Stochastic("Gamma", 1, 1, isq))
                  @@ ("sigma" :> Deterministic("inv_sqrt", <<"invsigsq">>)), {})
       ELSE IF StrEq(use_sigprior, "Gamma")
       THEN Bound(("invsigsq" :> Stochastic("Gamma", 2 * One, isq, isq))
                  @@ ("sigma" :> Deterministic("inv_sqrt", <<"invsigsq">>)), {})
       ELSE IF StrEq(use_sigprior, "None")
       THEN Bound("sigma" :> Stochastic("Uninformative", 0, 0, q), {})
       ELSE LET f == float(use_sigprior)
            IN IF f.ok THEN Bound("sigma" :> Fixed(f.v), Verbose(set_verbose, "sigma", f.v))
               ELSE NoSuchPrior("sigma", use_sigprior)

sigma_powexp(use_sigprior, ry, set_verbose) ==
    LET q == FDiv(ry, 4 * One)
        isq == FDiv(One, FMul(q, q))
    IN IF StrEq(use_sigprior, "CSK")
       THEN Bound("sigma" :> Stochastic("CSK", 0, 0, q), {})
       ELSE IF StrEq(use_sigprior, "Vague")
       THEN Bound(("invsigsq" :> Stochastic("Gamma", 1, 1, isq))
                  @@ ("sigma" :> Deterministic("inv_sqrt", <<"invsigsq">>)), {})
       ELSE IF StrEq(use_sigprior, "Gamma")
       THEN Bound(("invsigsq" :> Stochastic("Gamma", 2 * One, isq, isq))
                  @@ ("sigma" :> Deterministic("inv_sqrt", <<"invsigsq">>)), {})
       ELSE IF StrEq(use_sigprior, "None")
       THEN Bound(("invsigsq" :> Stochastic("Uninformative", 0, 0, isq))
                  @@ ("sigma" :> Deterministic("inv_sqrt_abs", <<"invsigsq">>)), {})
       ELSE LET f == float(use_sigprior)
            IN IF f.ok THEN Bound("sigma" :> Fixed(f.v), Verbose(set_verbose, "sigma", f.v))
               ELSE NoSuchPrior("sigma", use_sigprior)

tau_powexp(use_tauprior, rx, cadence, set_verbose) ==
    LET t0 == SqrtProd(rx, cadence)
    IN IF StrEq(use_tauprior, "CSK")
       THEN Bound("tau" :> Stochastic("CSK", 0, 0, t0), {})
       ELSE IF StrEq(use_tauprior, "Vague")
       THEN Bound("tau" :> Stochastic("Gamma", 1, 1, t0), {})
       ELSE IF StrEq(use_tauprior, "IG")
       THEN Bound("tau" :> Stochastic("InverseGamma", 2 * One, t0, t0), {})
       ELSE IF StrEq(use_tauprior, "None")
       THEN Bound("tau" :> Stochastic("Uninformative", 0, 0, t0), {})
       ELSE LET f == float(use_tauprior)
            IN IF f.ok THEN Bound("tau" :> Fixed(f.v), Verbose(set_verbose, "tau", f.v))
               ELSE NoSuchPrior("tau", use_tauprior)

nu_powexp(use_nuprior, set_verbose) ==
    IF StrEq(use_nuprior, "Uniform")
    THEN Bound("nu" :> Stochastic("Uniform", 0, 2 * One, One), {})
    ELSE LET f == float(use_nuprior)
         IN IF f.ok THEN Bound("nu" :> Fixed(f.v), Verbose(set_verbose, "nu", f.v))
            ELSE NoSuchPrior("nu", use_nuprior)

Returned == [kind |-> "returned", exc |-> "", about |-> ""]

Raise(exc, about) == [kind |-> "raised", exc |-> exc, about |-> about]

\* a call that returns locals(): the nodes and floats among them
Return(nodes, out) == [result |-> Returned, model |-> nodes, stdout |-> out]

\* a call that an exception leaves: nothing is returned
Fail(exc, about, out) == [result |-> Raise(exc, about), model |-> NoNodes, stdout |-> out]

make_model_powexp(zydata, use_sigprior, use_tauprior, use_nuprior, set_verbose) ==
    LET cadence == zydata.cont_cad
        rx == zydata.rj
        ry == zydata.marr_max - zydata.marr_min
        s == sigma_powexp(use_sigprior, ry, set_verbose)
        t == tau_powexp(use_tauprior, rx, cadence, set_verbose)
        n == nu_powexp(use_nuprior, set_verbose)
        guess == <<SqrtProd(rx, cadence), FDiv(ry, 4 * One), One>>
    IN IF ~s.ok THEN Fail(s.exc, s.about, {})
       ELSE IF ~t.ok THEN Fail(t.exc, t.about, s.out)
       ELSE IF ~n.ok THEN Fail(n.exc, n.about, s.out \cup t.out)
       ELSE Return(s.nodes @@ t.nodes @@ n.nodes
                   @@ ("model_powexp" :> Observed(guess, <<"sigma", "tau", "nu">>, "pow_exp")),
                   s.out \cup t.out \cup n.out)

\* --------------------------------------------------- make_model_cov3par
\* nu_init of the par_init is None branch
nu_init_default(covfunc) ==
    IF Is(covfunc, "pow_exp") THEN Local(1000)
    ELSE IF Is(covfunc, "matern") THEN Local(500)
    ELSE IF Is(covfunc, "pareto_exp") THEN Local(1500)
    ELSE IF Is(covfunc, "kepler_exp") THEN Local(100)
    ELSE Unbound

\* truncation limit for the third parameter
nu_min(covfunc) ==
    IF Is(covfunc, "pow_exp") THEN Local(0)
    ELSE IF Is(covfunc, "matern") THEN Local(1)
    ELSE IF Is(covfunc, "pareto_exp") THEN Local(1)
    ELSE IF Is(covfunc, "kepler_exp") THEN Local(1)
    ELSE Unbound

nu_max(covfunc) ==
    IF Is(covfunc, "pow_exp") THEN Local(1999)
    ELSE IF Is(covfunc, "matern") THEN Local(2000)
    ELSE IF Is(covfunc, "pareto_exp") THEN Local(2000)
    ELSE IF Is(covfunc, "kepler_exp") THEN Local(800)
    ELSE Unbound

sigma_cov3par(use_sigprior, ry, set_verbose) ==
    LET q == FDiv(ry, 4 * One)
        isq == FDiv(One, FMul(q, q))
    IN IF StrEq(use_sigprior, "CSK")
       THEN Bound("sigma" :> Stochastic("CSK", 0, 0, q), {})
       ELSE IF StrEq(use_sigprior, "Vague")
       THEN Bound(("invsigsq" :> Stochastic("Gamma", 1, 1, isq))
                  @@ ("sigma" :> Deterministic("inv_sqrt", <<"invsigsq">>)), {})
       ELSE IF StrEq(use_sigprior, "Gamma")
       THEN Bound(("invsigsq" :> Stochastic("Gamma", 2 * One, isq, isq))
                  @@ ("sigma" :> Deterministic("inv_sqrt", <<"invsigsq">>)), {})
       ELSE IF StrEq(use_sigprior, "None")
       THEN Bound(("invsigsq" :> Stochastic("Uninformative", 0, 0, isq))
                  @@ ("sigma" :> Deterministic("inv_sqrt_abs", <<"invsigsq">>)), {})
       ELSE LET f == float(use_sigprior)
            IN IF f.ok THEN Bound("sigma" :> Fixed(f.v), Verbose(set_verbose, "sigma", f.v))
               ELSE NoSuchPrior("sigma", use_sigprior)

\* tau_cov3par with a number made the start of a free node
tau_cov3par_free(use_tauprior, rx, cadence, set_verbose) ==
    LET t0 == SqrtProd(rx, cadence)
    IN IF StrEq(use_tauprior, "CSK")
       THEN Bound("tau" :> Stochastic("CSK", 0, 0, t0), {})
       ELSE IF StrEq(use_tauprior, "Vague")
       THEN Bound("tau" :> Stochastic("Gamma", 1, 1, t0), {})
       ELSE IF StrEq(use_tauprior, "IG")
       THEN Bound("tau" :> Stochastic("InverseGamma", 2 * One, t0, t0), {})
       ELSE IF StrEq(use_tauprior, "None")
       THEN Bound("tau" :> Stochastic("Uninformative", 0, 0, t0), {})
       ELSE LET f == float(use_tauprior)
            IN IF f.ok
               THEN Bound("tau" :> Stochastic("Uninformative", 0, 0, f.v),
                          Verbose(set_verbose, "tau", f.v))
               ELSE NoSuchPrior("tau", use_tauprior)

tau_cov3par(use_tauprior, rx, cadence, set_verbose) ==
    LET t0 == SqrtProd(rx, cadence)
    IN IF StrEq(use_tauprior, "CSK")
       THEN Bound("tau" :> Stochastic("CSK", 0, 0, t0), {})
       ELSE IF StrEq(use_tauprior, "Vague")
       THEN Bound("tau" :> Stochastic("Gamma", 1, 1, t0), {})
       ELSE IF StrEq(use_tauprior, "IG")
       THEN Bound("tau" :> Stochastic("InverseGamma", 2 * One, t0, t0), {})
       ELSE IF StrEq(use_tauprior, "None")
       THEN Bound("tau" :> Stochastic("Uninformative", 0, 0, t0), {})
       ELSE LET f == float(use_tauprior)
            IN IF f.ok THEN Bound("tau" :> Fixed(f.v), Verbose(set_verbose, "tau", f.v))
               ELSE NoSuchPrior("tau", use_tauprior)

\* pm.Uniform('nu', nu_min, nu_max, value=nu_init) reads nu_min, nu_max and
\* nu_init in that order; an unassigned one raises UnboundLocalError
nu_cov3par(use_nuprior, lo, hi, init, set_verbose) ==
    IF StrEq(use_nuprior, "Uniform")
    THEN IF ~lo.bound THEN Raised("UnboundLocalError", "nu_min")
         ELSE IF ~hi.bound THEN Raised("UnboundLocalError", "nu_max")
         ELSE IF ~init.bound THEN Raised("UnboundLocalError", "nu_init")
         ELSE Bound("nu" :> Stochastic("Uniform", lo.v, hi.v, init.v), {})
    ELSE LET f == float(use_nuprior)
         IN IF f.ok THEN Bound("nu" :> Fixed(f.v), Verbose(set_verbose, "nu", f.v))
            ELSE NoSuchPrior("nu", use_nuprior)

make_model_cov3par(zydata, covfunc, use_sigprior, use_tauprior, use_nuprior, par_init, set_verbose) ==
    LET cadence == zydata.cont_cad
        rx == zydata.rj
        ry == zydata.marr_max - zydata.marr_min
        \* nu_init is assigned only on the par_init is None branch
        nu_init == IF par_init.none THEN nu_init_default(covfunc) ELSE Unbound
        par == IF par_init.none
               THEN <<FDiv(ry, 4 * One), SqrtProd(rx, cadence), nu_init.v>>
               ELSE par_init.list
        s == sigma_cov3par(use_sigprior, ry, set_verbose)
        t == tau_cov3par(use_tauprior, rx, cadence, set_verbose)
        n == nu_cov3par(use_nuprior, nu_min(covfunc), nu_max(covfunc), nu_init, set_verbose)
    IN IF par_init.none /\ ~nu_init.bound THEN Fail("UnboundLocalError", "nu_init", {})
       ELSE IF ~s.ok THEN Fail(s.exc, s.about, {})
       ELSE IF ~t.ok THEN Fail(t.exc, t.about, s.out)
       ELSE IF ~n.ok THEN Fail(n.exc, n.about, s.out \cup t.out)
       ELSE Return(s.nodes @@ t.nodes @@ n.nodes
                   @@ ("model_cov3par" :> Observed(par, <<"sigma", "tau", "nu">>, covfunc.s)),
                   s.out \cup t.out \cup n.out)

\* ------------------------------------------------------ the built model
\* sigma of the 'Vague' and 'Gamma' recipes
sigma_inv_sqrt(invsigsq) == InvSqrt(invsigsq)

\* 1.e-6 counted in millionths, and 1.e6
Eps6 == 1

Big6 == 1000000000

\* sigma of the 'None' recipe
sigma_inv_sqrt_abs(invsigsq) ==
    IF Abs(invsigsq) * One < Eps6 THEN Big6 ELSE InvSqrt(Abs(invsigsq))

\* the value of an entry of the mapping: a float is itself, a stochastic
\* holds its value, a deterministic is computed from its parent
ValueOf(m, name) ==
    IF m[name].kind = "Deterministic"
    THEN IF m[name].dist = "inv_sqrt"
         THEN sigma_inv_sqrt(m[m[name].parents[1]].value)
         ELSE sigma_inv_sqrt_abs(m[m[name].parents[1]].value)
    ELSE m[name].value

\* --------------------------------------------------- the likelihood engine
PRH(zydata, covfunc, sigma, tau, nu) ==
    [zydata |-> zydata, covfunc |-> covfunc, sigma |-> sigma, tau |-> tau, nu |-> nu]

\* prh.loglike_prh(): a tuple that the engine computes from what the
\* object was built from; its first element is the log-likelihood
loglike_prh(prh) == <<[q |-> "loglike", prh |-> prh], [q |-> "chi2", prh |-> prh]>>

\* one evaluation: the PRH objects made, the loglike_prh calls, the value
\* returned
Evaluation(made, called, ret) == [made |-> made, called |-> called, ret |-> ret]

model_powexp(value, sigma, tau, nu, zydata) ==
    LET par == <<sigma, tau, nu>>
        prh == PRH(zydata, "pow_exp", par[1], par[2], par[3])
        out == loglike_prh(prh)
    IN Evaluation(<<prh>>, <<prh>>, out[1])

\* model_cov3par with par in the order of the guess of make_model_powexp
model_cov3par_swapped(value, sigma, tau, nu, zydata, covfunc) ==
    LET par == <<tau, sigma, nu>>
        prh == PRH(zydata, covfunc, par[1], par[2], par[3])
        out == loglike_prh(prh)
    IN Evaluation(<<prh>>, <<prh>>, out[1])

model_cov3par(value, sigma, tau, nu, zydata, covfunc) ==
    LET par == <<sigma, tau, nu>>
        prh == PRH(zydata, covfunc, par[1], par[2], par[3])
        out == loglike_prh(prh)
    IN Evaluation(<<prh>>, <<prh>>, out[1])

\* ------------------------------------------------------------- the sampler
SigmaValues == {-500, 0, 500}

InvSigValues == {-4000, 0, 250}

TauValues == {0, 1000, 2500, 5000, 10000000, 16000000, 32000000}

LibraryTauValues == {0, 5000}

NuValues == {500, 2500}

\* the values the sampler proposes for a node
ValuesFor(m, name) ==
    CASE name = "sigma" -> SigmaValues
      [] name = "invsigsq" -> InvSigValues
      [] name = "tau" -> IF m[name].dist = "CSK" THEN TauValues ELSE LibraryTauValues
      [] name = "nu" -> NuValues

\* the support of the library distributions
InSupport(node, v) ==
    CASE node.dist \in {"Gamma", "InverseGamma"} -> v > 0
      [] node.dist = "Uniform" -> node.p1 <= v /\ v <= node.p2
      [] OTHER -> TRUE

Stochastics(m) == { name \in DOMAIN m : m[name].kind = "Stochastic" }

\* the logp function of a 'CSK' node, with the cadence its closure holds
CSKLogp(func, name, v, cadence) ==
    IF func = "make_model_powexp"
    THEN IF name = "sigma" THEN sigma_logp_powexp(v) ELSE tau_logp_powexp(v, cadence)
    ELSE IF name = "sigma" THEN sigma_logp_cov3par(v) ELSE tau_logp_cov3par(v, cadence)

NoArgs == [func |-> "none"]

NoPRH == PRH(0, "", 0, 0, 0)

NoRet == [q |-> "", prh |-> NoPRH]

\* what the last step of the sampler showed: nothing, the log-density a
\* 'CSK' logp function returned for a value, or one evaluation of the
\* likelihood node
NoLast ==
    [op |-> "none", name |-> "", value |-> 0, cadence |-> 0, logp |-> PyNone,
     made |-> <<>>, called |-> <<>>, ret |-> NoRet]

LogpSeen(name, value, cadence, lp) ==
    [op |-> "logp", name |-> name, value |-> value, cadence |-> cadence, logp |-> lp,
     made |-> <<>>, called |-> <<>>, ret |-> NoRet]

EvaluationSeen(e) ==
    [op |-> "evaluate", name |-> "", value |-> 0, cadence |-> 0, logp |-> PyNone,
     made |-> e.made, called |-> e.called, ret |-> e.ret]

Init ==
    /\ args = NoArgs
    /\ result = [kind |-> "none", exc |-> "", about |-> ""]
    /\ model = NoNodes
    /\ stdout = {}
    /\ last = NoLast

\* a call of make_model_powexp; a behaviour follows one build and the
\* sampling of the model it returned
CallPowexp ==
    /\ args = NoArgs
    /\ \E zydata \in ZyData, sp \in SigPriorArgs, tp \in TauPriorArgs, np \in NuPriorArgs,
          set_verbose \in BOOLEAN :
        LET r == make_model_powexp(zydata, sp, tp, np, set_verbose)
        IN /\ args' = [func |-> "make_model_powexp", zydata |-> zydata,
                       covfunc |-> Cov("pow_exp", TRUE), use_sigprior |-> sp,
                       use_tauprior |-> tp, use_nuprior |-> np, par_init |-> NoParInit]
           /\ result' = r.result
           /\ model' = r.model
           /\ stdout' = r.stdout
           /\ last' = NoLast

\* a call of make_model_cov3par
CallCov3par ==
    /\ args = NoArgs
    /\ \E zydata \in ZyData, covfunc \in CovArgs, sp \in SigPriorArgs, tp \in TauPriorArgs,
          np \in NuPriorArgs, par_init \in ParInitArgs, set_verbose \in BOOLEAN :
        LET r == make_model_cov3par(zydata, covfunc, sp, tp, np, par_init, set_verbose)
        IN /\ args' = [func |-> "make_model_cov3par", zydata |-> zydata,
                       covfunc |-> covfunc, use_sigprior |-> sp,
                       use_tauprior |-> tp, use_nuprior |-> np, par_init |-> par_init]
           /\ result' = r.result
           /\ model' = r.model
           /\ stdout' = r.stdout
           /\ last' = NoLast

\* the sampler proposes a value for a 'CSK' node and evaluates its logp; the
\* value is kept when the log-density is finite, and may or may not be kept
\* when the function returned nothing
ProposeCSK ==
    /\ result.kind = "returned"
    /\ \E name \in Stochastics(model) :
         /\ model[name].dist = "CSK"
         /\ \E v \in ValuesFor(model, name), keepNone \in BOOLEAN :
              LET lp == CSKLogp(args.func, name, v, args.zydata.cont_cad)
                  keep == lp.k = "neglog" \/ (lp.k = "None" /\ keepNone)
              IN /\ last' = LogpSeen(name, v, args.zydata.cont_cad, lp)
                 /\ model' = IF keep THEN [model EXCEPT ![name].value = v] ELSE model
    /\ UNCHANGED <<args, result, stdout>>

\* the sampler moves a node that has a library distribution inside its support
ProposeLibrary ==
    /\ result.kind = "returned"
    /\ \E name \in Stochastics(model) :
         /\ model[name].dist # "CSK"
         /\ \E v \in ValuesFor(model, name) :
              /\ InSupport(model[name], v)
              /\ model' = [model EXCEPT ![name].value = v]
    /\ last' = NoLast
    /\ UNCHANGED <<args, result, stdout>>

LikelihoodName == IF args.func = "make_model_powexp" THEN "model_powexp" ELSE "model_cov3par"

\* the sampler evaluates the observed node with the current values of its
\* parents
Evaluate ==
    /\ result.kind = "returned"
    /\ LET node == model[LikelihoodName]
           sigma == ValueOf(model, node.parents[1])
           tau == ValueOf(model, node.parents[2])
           nu == ValueOf(model, node.parents[3])
       IN last' = EvaluationSeen(
              IF args.func = "make_model_powexp"
              THEN model_powexp(node.guess, sigma, tau, nu, args.zydata)
              ELSE model_cov3par(node.guess, sigma, tau, nu, args.zydata, node.covfunc))
    /\ UNCHANGED <<args, result, model, stdout>>

Next == CallPowexp \/ CallCov3par \/ ProposeCSK \/ ProposeLibrary \/ Evaluate

Spec == Init /\ [][Next]_vars

\* ===================================================================
\* Properties
\* ===================================================================
SigRecipes == {"CSK", "Vague", "Gamma", "None"}

TauRecipes == {"CSK", "Vague", "IG", "None"}

NuRecipes == {"Uniform"}

IsRecipe(x, recipes) == x.t = "str" /\ x.s \in recipes

\* neither a named recipe nor convertible to a float
Unusable(x, recipes) == ~IsRecipe(x, recipes) /\ ~float(x).ok

\* a number: no recipe, and float() accepts it
IsNumber(x, recipes) == ~IsRecipe(x, recipes) /\ float(x).ok

Called == args.func # "none"

ReturnedModel == result.kind = "returned"

PriorArg(p) ==
    CASE p = "sigma" -> args.use_sigprior
      [] p = "tau" -> args.use_tauprior
      [] p = "nu" -> args.use_nuprior

RecipesOf(p) ==
    CASE p = "sigma" -> SigRecipes
      [] p = "tau" -> TauRecipes
      [] p = "nu" -> NuRecipes

\* the parameters the builders look at before p
Before(p) ==
    CASE p = "sigma" -> {}
      [] p = "tau" -> {"sigma"}
      [] p = "nu" -> {"sigma", "tau"}

\* C1: in both builders, a prior argument that is no named recipe and that
\* float() rejects ends the call with RuntimeError naming its parameter (the
\* first such parameter, in the order sigma, tau, nu), and nothing is
\* returned.
C1_RaisesRuntimeError ==
    Called =>
        \A p \in {"sigma", "tau", "nu"} :
            ( /\ Unusable(PriorArg(p), RecipesOf(p))
              /\ \A b \in Before(p) : ~Unusable(PriorArg(b), RecipesOf(b)) )
            => /\ result = Raise("RuntimeError", p)
               /\ model = NoNodes

\* C2: a prior argument that is a number is bound to the plain float of that
\* number, no node is made for it, and every evaluation of the likelihood
\* node passes that float to the engine, whatever the sampler did to the
\* other parameters.
C2_FixedStaysFixed ==
    ReturnedModel =>
        \A p \in {"sigma", "tau", "nu"} :
            IsNumber(PriorArg(p), RecipesOf(p)) =>
                /\ model[p] = Fixed(float(PriorArg(p)).v)
                /\ (p = "sigma" => "invsigsq" \notin DOMAIN model)
                /\ last.op = "evaluate" =>
                     \A i \in 1..Len(last.made) : last.made[i][p] = float(PriorArg(p)).v

\* a likelihood evaluation with sigma fixed, after the sampler moved tau
C2_Witness ==
    /\ ReturnedModel
    /\ args.use_sigprior = PyFloat(1500)
    /\ model["tau"].kind = "Stochastic"
    /\ model["tau"].value = 5000
    /\ last.op = "evaluate"
    /\ last.made[1].sigma = 1500

ObservedNames(m) == { name \in DOMAIN m : m[name].kind = "Observed" }

\* the part of C3 on the entries of the mapping
C3_Shape ==
    /\ {"sigma", "tau", "nu"} \subseteq DOMAIN model
    /\ ObservedNames(model) = {LikelihoodName}
    /\ model[LikelihoodName].parents = <<"sigma", "tau", "nu">>
    /\ ("invsigsq" \in DOMAIN model <=> IsRecipe(args.use_sigprior, {"Vague", "Gamma", "None"}))
    /\ "invsigsq" \in DOMAIN model =>
          /\ model["sigma"].kind = "Deterministic"
          /\ model["sigma"].parents = <<"invsigsq">>
          /\ model["invsigsq"].kind = "Stochastic"

\* s = 1/sqrt(x) in fixed point: s*s*x = 1, counted in thousandths
IsInvSqrt(s, x) == x > 0 /\ s * s * x = 1000000000

\* C3 as stated: every returned mapping holds sigma, tau, nu and one
\* observed likelihood node with exactly these parents, and holds the
\* transform sigma = 1/sqrt(invsigsq) with its parent exactly for the
\* recipes 'Vague', 'Gamma' and 'None'.
C3_Original ==
    ReturnedModel =>
        /\ C3_Shape
        /\ "invsigsq" \in DOMAIN model =>
              IsInvSqrt(ValueOf(model, "sigma"), model["invsigsq"].value)

\* C3 amended: as stated for 'Vague' and 'Gamma'; for 'None' the transform
\* is sigma = 1/sqrt(|invsigsq|), and 1.e6 when |invsigsq| < 1.e-6.
C3_Amended ==
    ReturnedModel =>
        /\ C3_Shape
        /\ "invsigsq" \in DOMAIN model =>
              LET s == ValueOf(model, "sigma")
                  x == model["invsigsq"].value
              IN IF StrEq(args.use_sigprior, "None")
                 THEN IF Abs(x) * One < Eps6 THEN s = Big6 ELSE IsInvSqrt(s, Abs(x))
                 ELSE IsInvSqrt(s, x)

\* the 'None' recipe with a negative invsigsq, evaluated
C3_Witness ==
    /\ ReturnedModel
    /\ StrEq(args.use_sigprior, "None")
    /\ model["invsigsq"].value = -4000
    /\ last.op = "evaluate"
    /\ last.made[1].sigma = 500

\* the covariance-function name the likelihood node passes on
EngineCovfunc == IF args.func = "make_model_powexp" THEN "pow_exp" ELSE args.covfunc.s

\* C4: each evaluation of the likelihood node makes one PRH from the
\* dataset, the covariance-function name and the current sigma, tau, nu,
\* calls loglike_prh once on it and returns the first element of the
\* result; the node's own value plays no part.
C4_OneEnginePerEvaluation ==
    last.op = "evaluate" =>
        /\ Len(last.made) = 1
        /\ last.called = last.made
        /\ last.made[1].zydata = args.zydata
        /\ last.made[1].covfunc = EngineCovfunc
        /\ last.made[1].sigma = ValueOf(model, "sigma")
        /\ last.made[1].tau = ValueOf(model, "tau")
        /\ last.made[1].nu = ValueOf(model, "nu")
        /\ last.ret = [q |-> "loglike", prh |-> last.made[1]]

\* an evaluation of model_cov3par for "matern" after tau was moved
C4_Witness ==
    /\ last.op = "evaluate"
    /\ args.func = "make_model_cov3par"
    /\ args.covfunc.s = "matern"
    /\ model["tau"].kind = "Stochastic"
    /\ model["tau"].value = 5000
    /\ model["sigma"].kind = "Stochastic"
    /\ last.made[1].tau = 5000
    /\ last.made[1].sigma # 5000

\* the nu prior C5 names for each covariance function
C5_Table(name) ==
    CASE name = "pow_exp" -> Stochastic("Uniform", 0, 1999, 1000)
      [] name = "matern" -> Stochastic("Uniform", 1, 2000, 500)
      [] name = "pareto_exp" -> Stochastic("Uniform", 1, 2000, 1500)
      [] name = "kepler_exp" -> Stochastic("Uniform", 1, 800, 100)

\* a step that is a call of make_model_cov3par
Cov3parCalled == args = NoArgs /\ args'.func = "make_model_cov3par"

\* C5: for each of the four covariance-function names, make_model_cov3par
\* with par_init=None and use_nuprior='Uniform' builds nu as
\* Uniform(nu_min, nu_max) starting at nu_init, nu_min < nu_init < nu_max.
C5_NuInsideSupport ==
    [][ ( /\ Cov3parCalled
          /\ args'.covfunc.s \in CovNames
          /\ args'.par_init.none
          /\ StrEq(args'.use_nuprior, "Uniform")
          /\ ~Unusable(args'.use_sigprior, SigRecipes)
          /\ ~Unusable(args'.use_tauprior, TauRecipes) )
        => /\ result'.kind = "returned"
           /\ model'["nu"] = C5_Table(args'.covfunc.s)
           /\ model'["nu"].p1 < model'["nu"].value
           /\ model'["nu"].value < model'["nu"].p2 ]_vars

\* C6: make_model_cov3par with a covfunc that is none of the four names
\* ends in an error, whatever the other arguments, and returns no model.
C6_UnknownCovfuncRaises ==
    (args.func = "make_model_cov3par" /\ args.covfunc.s \notin CovNames)
    => /\ result.kind = "raised"
       /\ model = NoNodes

IsPositive(lp) == lp.k = "neglog" /\ lp.num < lp.den

IsZero(lp) == lp.k = "neglog" /\ lp.num = lp.den

IsFinite(lp) == lp.k = "neglog"

TauLogpSeen == last.op = "logp" /\ last.name = "tau"

\* the log-density C7 gives for a value and a cadence
C7_Lobes(v, c) ==
    IF c < v /\ v < TauCut THEN NegLog(v, c)
    ELSE IF 0 < v /\ v <= c THEN NegLog(c, v)
    ELSE NegInf

\* C7 as stated: the 'CSK' log-density of tau is -log(value/cadence) on
\* cadence < value < 10000, -log(cadence/value) on 0 < value <= cadence and
\* -infinity otherwise; it is never positive, is 0 exactly at value ==
\* cadence, and is finite exactly when 0 < value < 10000.
C7_Original ==
    TauLogpSeen =>
        /\ last.logp = C7_Lobes(last.value, last.cadence)
        /\ ~IsPositive(last.logp)
        /\ (IsZero(last.logp) <=> last.value = last.cadence)
        /\ (IsFinite(last.logp) <=> (0 < last.value /\ last.value < TauCut))

\* C7 amended: as stated, but finite exactly when 0 < value < 10000 or
\* 0 < value <= cadence; with cadence >= 10000 the upper lobe is empty and
\* the values from 10000 to cadence keep a finite log-density.
C7_Amended ==
    TauLogpSeen =>
        /\ last.logp = C7_Lobes(last.value, last.cadence)
        /\ ~IsPositive(last.logp)
        /\ (IsZero(last.logp) <=> last.value = last.cadence)
        /\ (IsFinite(last.logp) <=>
              \/ (0 < last.value /\ last.value < TauCut)
              \/ (0 < last.value /\ last.value <= last.cadence))

\* a finite log-density at a value of 10000 or more
C7_Witness ==
    /\ TauLogpSeen
    /\ last.value >= TauCut
    /\ last.value < last.cadence
    /\ IsFinite(last.logp)
    /\ ~IsZero(last.logp)

\* C8: the 'CSK' log-density of sigma is -log(value) for value > 0 and
\* -infinity for every value <= 0; it always returns a result.
C8_SigmaLogpTotal ==
    (last.op = "logp" /\ last.name = "sigma") =>
        /\ last.logp.k # "None"
        /\ last.value > 0 => last.logp = NegLog(last.value, One)
        /\ last.value <= 0 => last.logp = NegInf

\* C9: make_model_cov3par with a recognized covfunc, a supplied par_init and
\* use_nuprior='Uniform' returns, and nu starts at par_init[2].
C9_SuppliedParInit ==
    [][ ( /\ Cov3parCalled
          /\ args'.covfunc.s \in CovNames
          /\ args'.covfunc.same
          /\ ~args'.par_init.none
          /\ StrEq(args'.use_nuprior, "Uniform")
          /\ ~Unusable(args'.use_sigprior, SigRecipes)
          /\ ~Unusable(args'.use_tauprior, TauRecipes) )
        => /\ result'.kind = "returned"
           /\ model'["nu"].kind = "Stochastic"
           /\ model'["nu"].value = args'.par_init.list[3] ]_vars

====
